---- MODULE Spec2Model ----
(***************************************************************************)
(* docshot: convert (pagination, rendering, file naming), getLineColor and *)
(* docload (image discovery, reference string, validation).                *)
(*                                                                         *)
(* Strings are sequences of one-character strings.  A JavaScript number is *)
(* a record: Num(n), NaN, PosInf or Undef (the value `undefined`).         *)
(***************************************************************************)
EXTENDS Integers, Sequences, FiniteSets, TLC

\* ------------------------------------------------------------------ bounds
\* longest file content (characters) of the convert input
MaxContent == 4
\* largest numeric value tried for --lines
MaxLinesOpt == 3
\* page images an earlier run may have left in the output directory
MaxOldPages == 2
\* most white space characters put in front of a line given to getLineColor
MaxLead == 1
\* largest page ordinal (0-based) given to the file namer
MaxOrdinal == 1005
\* longest docload argument list
MaxArgs == 2
\* most entries of the image directory
MaxEntries == 3
\* most files a glob pattern matches
MaxFiles == 2

\* ----------------------------------------------------------------- numbers
Num(n) == [k |-> "num", v |-> n]
NaN == [k |-> "nan", v |-> 0]
PosInf == [k |-> "inf", v |-> 1]
Undef == [k |-> "undef", v |-> 0]

IsNum(x) == x.k = "num"

\* a + b of two JS numbers (undefined converts to NaN)
NumAdd(a, b) == IF IsNum(a) /\ IsNum(b) THEN Num(a.v + b.v) ELSE NaN

\* a * b of two JS numbers
NumMul(a, b) == IF IsNum(a) /\ IsNum(b) THEN Num(a.v * b.v) ELSE NaN

\* a < b: false as soon as one side is NaN
NumLess(a, b) == IsNum(a) /\ IsNum(b) /\ a.v < b.v

\* Math.ceil(n / l) for an array length n >= 0
MathCeilDiv(n, l) ==
  IF ~IsNum(l) THEN NaN
  ELSE IF l.v = 0 THEN (IF n = 0 THEN NaN ELSE PosInf)
  ELSE IF l.v > 0 THEN Num((n + l.v - 1) \div l.v)
  ELSE Num(0 - (n \div (0 - l.v)))

\* Math.floor(fontSize * 1.6), fontSize a non-negative integer or not a number
MathFloorLineHeight(f) ==
  IF IsNum(f) /\ f.v >= 0 THEN Num((f.v * 16) \div 10) ELSE NaN

\* ----------------------------------------------------------------- strings
DigitChar == <<"0", "1", "2", "3", "4", "5", "6", "7", "8", "9">>
DigitChars == {DigitChar[d] : d \in 1..10}
DigitVal(c) == CHOOSE d \in 0..9 : DigitChar[d + 1] = c

\* what String.prototype.trim and parseInt treat as white space
WhiteSpace == {" ", "\t", "\r", "\n"}

RECURSIVE Digits(_)
Digits(n) == IF n < 10 THEN <<DigitChar[n + 1]>>
             ELSE Digits(n \div 10) \o <<DigitChar[(n % 10) + 1]>>

\* String(x)
NumToString(x) ==
  IF x.k = "nan" THEN <<"N", "a", "N">>
  ELSE IF x.k = "inf" THEN <<"I", "n", "f", "i", "n", "i", "t", "y">>
  ELSE IF x.k = "undef" THEN <<"u", "n", "d", "e", "f", "i", "n", "e", "d">>
  ELSE IF x.v < 0 THEN <<"-">> \o Digits(0 - x.v)
  ELSE Digits(x.v)

RECURSIVE PadStart(_, _, _)
\* s.padStart(n, c)
PadStart(s, n, c) == IF Len(s) >= n THEN s ELSE PadStart(<<c>> \o s, n, c)

RECURSIVE SkipWhite(_)
SkipWhite(s) == IF s # <<>> /\ Head(s) \in WhiteSpace THEN SkipWhite(Tail(s)) ELSE s

RECURSIVE DigitPrefix(_)
DigitPrefix(s) == IF s # <<>> /\ Head(s) \in DigitChars
                  THEN <<Head(s)>> \o DigitPrefix(Tail(s)) ELSE <<>>

RECURSIVE DigitsValue(_, _)
DigitsValue(s, acc) == IF s = <<>> THEN acc
                       ELSE DigitsValue(Tail(s), acc * 10 + DigitVal(Head(s)))

\* parseInt(s): leading white space, an optional sign, then the longest run of
\* decimal digits; NaN when there is no digit
ParseInt(s) ==
  LET t == SkipWhite(s)
      neg == t # <<>> /\ Head(t) = "-"
      u == IF t # <<>> /\ Head(t) \in {"-", "+"} THEN Tail(t) ELSE t
      d == DigitPrefix(u)
  IN IF d = <<>> THEN NaN
     ELSE IF neg THEN Num(0 - DigitsValue(d, 0)) ELSE Num(DigitsValue(d, 0))

\* ToIntegerOrInfinity clamped to an array of length n, as Array.prototype.slice does
SliceIndex(x, n) ==
  IF ~IsNum(x) THEN 0
  ELSE IF x.v < 0 THEN (IF n + x.v < 0 THEN 0 ELSE n + x.v)
  ELSE IF x.v > n THEN n ELSE x.v

\* arr.slice(start, end), 0-based, end exclusive
Slice(arr, start, end) ==
  LET from == SliceIndex(start, Len(arr))
      to == SliceIndex(end, Len(arr))
  IN IF to <= from THEN <<>> ELSE SubSeq(arr, from + 1, to)

RECURSIVE SplitFrom(_, _, _)
SplitFrom(s, cur, sep) ==
  IF s = <<>> THEN <<cur>>
  ELSE IF Head(s) = sep THEN <<cur>> \o SplitFrom(Tail(s), <<>>, sep)
  ELSE SplitFrom(Tail(s), Append(cur, Head(s)), sep)

\* a split that drops the empty string after a final line feed
SplitLines_DropsLastEmpty(content) ==
  LET all == SplitFrom(content, <<>>, "\n")
  IN IF Len(all) > 1 /\ all[Len(all)] = <<>> THEN SubSeq(all, 1, Len(all) - 1) ELSE all

\* content.split('\n')
SplitLines(content) == SplitFrom(content, <<>>, "\n")

\* ------------------------------------------------------------- characters
LowerSeq == <<"a", "b", "c", "d", "e", "f", "g", "h", "i", "j", "k", "l", "m",
              "n", "o", "p", "q", "r", "s", "t", "u", "v", "w", "x", "y", "z">>
UpperSeq == <<"A", "B", "C", "D", "E", "F", "G", "H", "I", "J", "K", "L", "M",
              "N", "O", "P", "Q", "R", "S", "T", "U", "V", "W", "X", "Y", "Z">>
LowerChars == {LowerSeq[n] : n \in 1..26}
UpperChars == {UpperSeq[n] : n \in 1..26}

\* the regular expression class \w
WordChars == LowerChars \cup UpperChars \cup DigitChars \cup {"_"}

\* UTF-16 code unit of a character
CharCode(c) ==
  IF c \in DigitChars THEN 48 + DigitVal(c)
  ELSE IF c \in UpperChars THEN 64 + (CHOOSE n \in 1..26 : UpperSeq[n] = c)
  ELSE IF c \in LowerChars THEN 96 + (CHOOSE n \in 1..26 : LowerSeq[n] = c)
  ELSE CASE c = "\t" -> 9 [] c = "\n" -> 10 [] c = "\r" -> 13 [] c = " " -> 32
         [] c = "#" -> 35 [] c = "(" -> 40 [] c = "-" -> 45 [] c = "." -> 46
         [] c = "/" -> 47 [] c = "@" -> 64 [] c = "_" -> 95

\* c.toLowerCase() of one character
LowerOf(c) == IF c \in UpperChars THEN LowerSeq[CHOOSE n \in 1..26 : UpperSeq[n] = c] ELSE c

\* s.toLowerCase()
ToLowerCase(s) == [n \in 1..Len(s) |-> LowerOf(s[n])]

\* s.startsWith(p)
StartsWith(s, p) == Len(p) <= Len(s) /\ SubSeq(s, 1, Len(p)) = p

\* s.endsWith(p)
EndsWith(s, p) == Len(p) <= Len(s) /\ SubSeq(s, Len(s) - Len(p) + 1, Len(s)) = p

RECURSIVE StrLess(_, _)
\* a < b on strings: code unit by code unit, a proper prefix first
StrLess(a, b) ==
  IF b = <<>> THEN FALSE
  ELSE IF a = <<>> THEN TRUE
  ELSE IF Head(a) = Head(b) THEN StrLess(Tail(a), Tail(b))
  ELSE CharCode(Head(a)) < CharCode(Head(b))

RECURSIVE TrimEnd(_)
TrimEnd(s) == IF s # <<>> /\ s[Len(s)] \in WhiteSpace
              THEN TrimEnd(SubSeq(s, 1, Len(s) - 1)) ELSE s

\* s.trim()
Trim(s) == TrimEnd(SkipWhite(s))

\* ------------------------------------------------------------ getLineColor
TEXT_COLOR == "rgb(212, 212, 212)"
COMMENT_COLOR == "rgb(106, 153, 85)"
KEYWORD_COLOR == "rgb(86, 156, 214)"

\* the alternatives of the keyword pattern, in the pattern's order
Keywords == <<
  <<"f", "u", "n", "c", "t", "i", "o", "n">>,
  <<"c", "o", "n", "s", "t">>,
  <<"l", "e", "t">>,
  <<"v", "a", "r">>,
  <<"c", "l", "a", "s", "s">>,
  <<"i", "m", "p", "o", "r", "t">>,
  <<"e", "x", "p", "o", "r", "t">>,
  <<"r", "e", "t", "u", "r", "n">>,
  <<"i", "f">>,
  <<"e", "l", "s", "e">>,
  <<"f", "o", "r">>,
  <<"w", "h", "i", "l", "e">>,
  <<"a", "s", "y", "n", "c">>,
  <<"a", "w", "a", "i", "t">>,
  <<"i", "n", "t", "e", "r", "f", "a", "c", "e">>,
  <<"t", "y", "p", "e">>,
  <<"e", "n", "u", "m">>
>>

\* \b after the first p characters of s (p >= 1)
WordBoundaryAfter(s, p) ==
  (s[p] \in WordChars) # (p < Len(s) /\ s[p + 1] \in WordChars)

\* /^(function|const|...|enum)\b/.test(s)
KeywordTest(s) ==
  \E n \in 1..Len(Keywords) :
     StartsWith(s, Keywords[n]) /\ WordBoundaryAfter(s, Len(Keywords[n]))

\* the header rule tried before the comment rule
getLineColor_HeaderFirst(ln) ==
  LET trimmed == Trim(ln)
  IN IF StartsWith(trimmed, <<"#">>) THEN KEYWORD_COLOR
     ELSE IF StartsWith(trimmed, <<"/", "/">>) THEN COMMENT_COLOR
     ELSE IF KeywordTest(trimmed) THEN KEYWORD_COLOR
     ELSE TEXT_COLOR

getLineColor(ln) ==
  LET trimmed == Trim(ln)
  IN IF StartsWith(trimmed, <<"#">>) \/ StartsWith(trimmed, <<"/", "/">>)
       THEN COMMENT_COLOR
     ELSE IF StartsWith(trimmed, <<"#">>) THEN KEYWORD_COLOR
     ELSE IF KeywordTest(trimmed) THEN KEYWORD_COLOR
     ELSE TEXT_COLOR

\* the header test comes before the comment test
getLineColorReturn_HeaderFirst(ln) ==
  LET trimmed == Trim(ln)
  IN IF StartsWith(trimmed, <<"#">>) THEN "header"
     ELSE IF StartsWith(trimmed, <<"/", "/">>) THEN "comment"
     ELSE IF KeywordTest(trimmed) THEN "keyword"
     ELSE "default"

\* which of the four return statements of getLineColor is taken
getLineColorReturn(ln) ==
  LET trimmed == Trim(ln)
  IN IF StartsWith(trimmed, <<"#">>) \/ StartsWith(trimmed, <<"/", "/">>)
       THEN "comment"
     ELSE IF StartsWith(trimmed, <<"#">>) THEN "header"
     ELSE IF KeywordTest(trimmed) THEN "keyword"
     ELSE "default"

\* --------------------------------------------------------------- file name
\* padStart(2, '0') in place of padStart(3, '0')
PageFileName_Pad2(currentPage) ==
  <<"p", "a", "g", "e", "_">> \o PadStart(NumToString(currentPage), 2, "0")
    \o <<".", "p", "n", "g">>

\* `page_${String(currentPage).padStart(3, '0')}.png`
PageFileName(currentPage) ==
  <<"p", "a", "g", "e", "_">> \o PadStart(NumToString(currentPage), 3, "0")
    \o <<".", "p", "n", "g">>

\* ------------------------------------------------------ convert: the input
\* an option of the command line: absent, or given with a string value
Absent == [given |-> FALSE, val |-> <<>>]
Given(s) == [given |-> TRUE, val |-> s]

\* truthiness of an option value: undefined and the empty string are falsy
Truthy(opt) == opt.given /\ opt.val # <<>>

S_high == <<"h", "i", "g", "h">>
S_medium == <<"m", "e", "d", "i", "u", "m">>
S_low == <<"l", "o", "w">>
S_1400 == <<"1", "4", "0", "0">>

\* commander's option table: --density defaults to 'medium', --width to '1400'
CommanderOptions(cli) ==
  [density  |-> IF cli.density.given THEN cli.density ELSE Given(S_medium),
   lines    |-> cli.lines,
   fontSize |-> cli.fontSize,
   width    |-> IF cli.width.given THEN cli.width ELSE Given(S_1400)]

\* densityPresets
DensityNames == {S_high, S_medium, S_low}
densityPresets(name) ==
  IF name = S_high THEN [linesPerPage |-> Num(100), fontSize |-> Num(12)]
  ELSE IF name = S_medium THEN [linesPerPage |-> Num(80), fontSize |-> Num(14)]
  ELSE [linesPerPage |-> Num(60), fontSize |-> Num(16)]

\* keys every object inherits that are written in lower case: looking one up
\* gives a truthy value that has neither linesPerPage nor fontSize
InheritedKeys == {<<"c", "o", "n", "s", "t", "r", "u", "c", "t", "o", "r">>,
                  <<"_", "_", "p", "r", "o", "t", "o", "_", "_">>}

\* densityPresets[density] || densityPresets.medium
PresetFor(density) ==
  IF density \in DensityNames THEN densityPresets(density)
  ELSE IF density \in InheritedKeys THEN [linesPerPage |-> Undef, fontSize |-> Undef]
  ELSE densityPresets(S_medium)

\* the font size override is taken only when --lines is given too
Config_FontFollowsLines(options) ==
  LET preset == PresetFor(ToLowerCase(options.density.val))
  IN [linesPerPage |-> IF Truthy(options.lines)
                         THEN ParseInt(options.lines.val) ELSE preset.linesPerPage,
      fontSize     |-> IF Truthy(options.lines)
                         THEN ParseInt(options.fontSize.val) ELSE preset.fontSize,
      imageWidth   |-> ParseInt(options.width.val)]

\* processFile: "Get configuration"
Config(options) ==
  LET preset == PresetFor(ToLowerCase(options.density.val))
  IN [linesPerPage |-> IF Truthy(options.lines)
                         THEN ParseInt(options.lines.val) ELSE preset.linesPerPage,
      fontSize     |-> IF Truthy(options.fontSize)
                         THEN ParseInt(options.fontSize.val) ELSE preset.fontSize,
      imageWidth   |-> ParseInt(options.width.val)]

\* the convert action's density validation: TRUE when the option is rejected
DensityRejected(options) ==
  ToLowerCase(options.density.val) \notin DensityNames /\ ~Truthy(options.lines)

\* ------------------------------------------------------------ input files
\* only '*' makes a pattern
isGlobPattern_StarOnly(str) == \E n \in 1..Len(str) : str[n] = "*"

\* /[*?{\[\]]/.test(str)
isGlobPattern(str) == \E n \in 1..Len(str) : str[n] \in {"*", "?", "{", "[", "]"}

S_md == <<".", "m", "d">>

\* basename(filePath, '.md'): the last segment, without a final '.md'
BasenameMd(filePath) ==
  LET segs == SplitFrom(filePath, <<>>, "/")
      base == segs[Len(segs)]
  IN IF EndsWith(base, S_md) /\ Len(base) > Len(S_md)
       THEN SubSeq(base, 1, Len(base) - Len(S_md)) ELSE base

\* the directory name keeps the extension
fileToDirectoryName_KeepsExtension(filePath) ==
  LET segs == SplitFrom(filePath, <<>>, "/")
      base == segs[Len(segs)]
  IN [n \in 1..Len(base) |-> IF base[n] \in WordChars \cup {"-"} THEN base[n] ELSE "_"]

\* basename(filePath, '.md').replace(/[^a-zA-Z0-9-_]/g, '_')
fileToDirectoryName(filePath) ==
  LET base == BasenameMd(filePath)
  IN [n \in 1..Len(base) |-> IF base[n] \in WordChars \cup {"-"} THEN base[n] ELSE "_"]

\* ---------------------------------------------------------- generateImages
PADDING == 40

\* lines.slice(i + 1, i + linesPerPage): the first line of each page is skipped
PageSlice_SkipsFirst(lns, from, perPage) ==
  Slice(lns, NumAdd(from, Num(1)), NumAdd(from, perPage))

\* lines.slice(i, i + linesPerPage + 1): a page takes one line too many
PageSlice_OneMore(lns, from, perPage) ==
  Slice(lns, from, NumAdd(NumAdd(from, perPage), Num(1)))

\* lines.slice(i, i + linesPerPage)
PageSlice(lns, from, perPage) == Slice(lns, from, NumAdd(from, perPage))

\* the line number starts again at 1 on every page
StartLineNum_PerPage(pgNum, perPage) == Num(1)

\* pageNum * linesPerPage + 1
StartLineNum(pgNum, perPage) == NumAdd(NumMul(Num(pgNum), perPage), Num(1))

\* PADDING * 2 + lineHeight * (linesPerPage + 2)
ImageHeight(fSize, perPage) ==
  NumAdd(Num(PADDING * 2),
         NumMul(MathFloorLineHeight(fSize), NumAdd(perPage, Num(2))))

\* what one iteration of the render loop draws on its canvas: the header and,
\* for each line of the page, the line number string, the color and the text
DrawPage(pageLines, pgNum, total, perPage, fSize, width) ==
  [width  |-> width,
   height |-> ImageHeight(fSize, perPage),
   header |-> [page  |-> NumToString(Num(pgNum + 1)),
               total |-> NumToString(total)],
   rows   |-> [n \in 1..Len(pageLines) |->
                 [lineNumStr |-> PadStart(NumToString(
                                    NumAdd(StartLineNum(pgNum, perPage), Num(n - 1))),
                                    5, " "),
                  color      |-> getLineColor(pageLines[n]),
                  text       |-> pageLines[n]]]]

\* ------------------------------------------------------------------- state
VARIABLES
  \* convert
  cli,           \* the options as typed on the command line
  inputExists,   \* existsSync(filePath) of the <file> argument
  content,       \* the content of the input file
  disk,          \* the output directory: file name -> what was written, by
                 \* which run and of which input file
  diskBefore,    \* the output directory as the run found it
  dirCreated,    \* mkdirSync(outputDir) has run
  pc,            \* where the convert run is
  exitCode,      \* -1 while running
  stderr,        \* the error printed
  \* generateImages
  lines, linesPerPage, fontSize, imageWidth,
  totalPages, pages, loopI, pageNum,
  canvases,      \* the canvases drawn so far for the current file, in loop order
  \* convert: the input files
  fileArg,       \* the <file> argument
  globbed,       \* what glob returns for it, in its order: path, content, and
                 \* whether readFileSync succeeds
  files,         \* the files array
  fileIdx,       \* i of the file loop
  outputDir,     \* outputDir of the current file, relative to the output base
  tree           \* the other directories under the output base: name -> content

batchVars == <<fileArg, globbed, files, fileIdx, outputDir, tree>>

convVars == <<cli, inputExists, content, disk, diskBefore, dirCreated, pc, exitCode, stderr,
              lines, linesPerPage, fontSize, imageWidth,
              totalPages, pages, loopI, pageNum, canvases, batchVars>>

VARIABLES
  \* getLineColor
  line,          \* the argument
  lineColor,     \* the color returned, "" before the call
  lineReturn,    \* the return statement that was taken, "" before the call
  \* the file name of a page
  ordinal,       \* pageNum of the page
  filename       \* the name built for it, empty before

colorVars == <<line, lineColor, lineReturn>>
namerVars == <<ordinal, filename>>

VARIABLES
  \* docload
  args,          \* process.argv.slice(2)
  fs,            \* what is at each absolute path: "missing", "file" or "dir"
  listing,       \* what readdirSync returns for a directory, in its order,
                 \* each name with whether the entry is a regular file
  lpc,           \* where the docload run is
  lexit,         \* docload's exit code, -1 while running
  lerr,          \* the error docload printed
  imagesIndex, imagesDir, imageDirPath,
  pngFiles, relativePaths, systemPrompt,
  claudeArgs,
  spawned,       \* spawn('claude', ...) was called
  claude         \* the child process: its state and the exit code it ended with

loadVars == <<args, fs, listing, lpc, lexit, lerr, imagesIndex, imagesDir,
              imageDirPath, pngFiles, relativePaths, systemPrompt, claudeArgs, spawned,
              claude>>

vars == <<convVars, colorVars, namerVars, loadVars>>
notConvVars == <<colorVars, namerVars, loadVars>>

ColorOff == line = <<>> /\ lineColor = "" /\ lineReturn = ""
NamerOff == ordinal = 0 /\ filename = <<>>


\* ------------------------------------------------------------ docload: paths
S_images == <<"-", "-", "i", "m", "a", "g", "e", "s">>
S_i == <<"-", "i">>
S_help == <<"-", "-", "h", "e", "l", "p">>
S_h == <<"-", "h">>
S_docshot == <<"d", "o", "c", "s", "h", "o", "t">>
S_up_o == <<".", ".", "/", "o">>
S_q == <<"q">>
S_append == <<"-", "-", "a", "p", "p", "e", "n", "d", "-", "s", "y", "s", "t", "e", "m",
              "-", "p", "r", "o", "m", "p", "t">>

\* process.cwd(), as path segments: /w
Cwd == <<<<"w">>>>

RECURSIVE Normalize(_, _)
\* the segments of a path with '', '.' and '..' resolved, on top of done
Normalize(segs, done) ==
  IF segs = <<>> THEN done
  ELSE IF Head(segs) \in {<<>>, <<".">>} THEN Normalize(Tail(segs), done)
  ELSE IF Head(segs) = <<".", ".">>
    THEN Normalize(Tail(segs), IF done = <<>> THEN done ELSE SubSeq(done, 1, Len(done) - 1))
  ELSE Normalize(Tail(segs), Append(done, Head(segs)))

RECURSIVE JoinWith(_, _)
\* parts.join(sep)
JoinWith(parts, sep) ==
  IF parts = <<>> THEN <<>>
  ELSE IF Len(parts) = 1 THEN parts[1]
  ELSE parts[1] \o sep \o JoinWith(Tail(parts), sep)

\* an absolute path as a string
AbsPath(segs) == <<"/">> \o JoinWith(segs, <<"/">>)

\* path.resolve(str): the segments of the absolute path
Resolve(str) ==
  IF str # <<>> /\ Head(str) = "/"
    THEN Normalize(SplitFrom(str, <<>>, "/"), <<>>)
    ELSE Normalize(SplitFrom(str, <<>>, "/"), Cwd)

\* path.join(dir, file) for an absolute dir and an entry name
JoinPath(dir, file) == Normalize(SplitFrom(dir \o <<"/">> \o file, <<>>, "/"), <<>>)

RECURSIVE CommonPrefix(_, _)
CommonPrefix(a, b) ==
  IF a # <<>> /\ b # <<>> /\ Head(a) = Head(b) THEN 1 + CommonPrefix(Tail(a), Tail(b)) ELSE 0

\* path.relative(from, to) of two absolute paths
Relative(from, to) ==
  LET c == CommonPrefix(from, to)
  IN JoinWith([n \in 1..(Len(from) - c) |-> <<".", ".">>] \o SubSeq(to, c + 1, Len(to)),
              <<"/">>)

RECURSIVE InsertSorted(_, _)
InsertSorted(sorted, x) ==
  IF sorted = <<>> THEN <<x>>
  ELSE IF StrLess(x, Head(sorted)) THEN <<x>> \o sorted
  ELSE <<Head(sorted)>> \o InsertSorted(Tail(sorted), x)

RECURSIVE SortStrings(_)
\* arr.sort(): ascending by code units
SortStrings(arr) ==
  IF arr = <<>> THEN <<>>
  ELSE InsertSorted(SortStrings(SubSeq(arr, 1, Len(arr) - 1)), arr[Len(arr)])

\* arr.filter(keep) on a sequence
RECURSIVE FilterPng(_)
S_dotpng == <<".", "p", "n", "g">>
FilterPng(names) ==
  IF names = <<>> THEN <<>>
  ELSE (IF EndsWith(ToLowerCase(Head(names)), S_dotpng) THEN <<Head(names)>> ELSE <<>>)
         \o FilterPng(Tail(names))

\* "Find all PNG files": readdirSync, filter on the name, join, sort
FindPngFiles(entries, dirPath) ==
  LET dirFiles == [n \in 1..Len(entries) |-> entries[n].name]
      kept == FilterPng(dirFiles)
  IN SortStrings([n \in 1..Len(kept) |-> AbsPath(JoinPath(dirPath, kept[n]))])

\* "Generate relative paths from current working directory"
RelativePaths(pngs) ==
  [n \in 1..Len(pngs) |-> <<"@">> \o Relative(Cwd, Resolve(pngs[n]))]

\* the last '--images'/'-i' is the one found
FindImagesIndex_Last(argv) ==
  IF \E n \in 1..Len(argv) : argv[n] \in {S_images, S_i}
    THEN (CHOOSE n \in 1..Len(argv) :
            /\ argv[n] \in {S_images, S_i}
            /\ \A m \in (n + 1)..Len(argv) : argv[m] \notin {S_images, S_i}) - 1
    ELSE 0 - 1

\* args.findIndex(arg => arg === '--images' || arg === '-i'), 0-based, -1 if none
FindImagesIndex(argv) ==
  IF \E n \in 1..Len(argv) : argv[n] \in {S_images, S_i}
    THEN (CHOOSE n \in 1..Len(argv) :
            /\ argv[n] \in {S_images, S_i}
            /\ \A m \in 1..(n - 1) : argv[m] \notin {S_images, S_i}) - 1
    ELSE 0 - 1

\* the arguments after the flag's value are lost
ClaudeArgs_DropsRest(argv, index, prompt) ==
  (IF index # 0 - 1 THEN SubSeq(argv, 1, index) ELSE argv) \o <<S_append, prompt>>

\* "Remove --images flag and its value", then '--append-system-prompt', prompt
ClaudeArgs(argv, index, prompt) ==
  (IF index # 0 - 1
     THEN SubSeq(argv, 1, index) \o SubSeq(argv, index + 3, Len(argv))
     ELSE argv) \o <<S_append, prompt>>

\* no child process yet; code -1 stands for null (no exit code)
NoClaude == [state |-> "none", code |-> 0 - 1]

\* the exit codes claude ends with, null (killed by a signal) among them
ClaudeCodes == {0 - 1, 0, 1, 2, 255}

\* every exit code above 1 is forwarded as 1
ForwardedCode_Clamped(code) == IF code = 0 - 1 THEN 0 ELSE IF code > 1 THEN 1 ELSE code

\* code ?? 0
ForwardedCode(code) == IF code = 0 - 1 THEN 0 ELSE code

\* existsSync / statSync of an absolute path
KindAt(path) == IF path \in DOMAIN fs THEN fs[path] ELSE "missing"

\* ------------------------------------------------------------ docload: Init
LoadOff ==
  /\ args = <<>>
  /\ fs = [path \in {} |-> "missing"]
  /\ listing = <<>>
  /\ lpc = "off"
  /\ lexit = 0 - 1
  /\ lerr = "none"
  /\ imagesIndex = 0 - 1
  /\ imagesDir = <<>>
  /\ imageDirPath = <<>>
  /\ pngFiles = <<>>
  /\ relativePaths = <<>>
  /\ systemPrompt = <<>>
  /\ claudeArgs = <<>>
  /\ spawned = FALSE
  /\ claude = NoClaude

RECURSIVE SeqsUpTo(_, _)
\* every sequence over set of length at most n
SeqsUpTo(set, n) ==
  IF n = 0 THEN {<<>>}
  ELSE LET shorter == SeqsUpTo(set, n - 1)
       IN shorter \cup {Append(t, x) : t \in shorter, x \in set}

ArgTokens == {S_images, S_i, S_help, S_h, S_up_o, S_q}

\* the two places an image directory is looked for: ./docshot and ../o
DocshotPath == <<<<"w">>, S_docshot>>
OtherPath == <<<<"o">>>>

EntryNames == {<<"b", ".", "p", "n", "g">>, <<"B", ".", "P", "N", "G">>,
               <<"a", ".", "p", "n", "g", ".", "t", "x", "t">>,
               <<"a", " ", "b", ".", "p", "n", "g">>}

\* directory listings: entries with different names, in any order
Listings(n) ==
  {l \in SeqsUpTo([name : EntryNames, isFile : BOOLEAN], n) :
     \A a, b \in 1..Len(l) : a # b => l[a].name # l[b].name}

LoadStart ==
  /\ lpc = "start"
  /\ lexit = 0 - 1
  /\ lerr = "none"
  /\ imagesIndex = 0 - 1
  /\ imagesDir = <<>>
  /\ imageDirPath = <<>>
  /\ pngFiles = <<>>
  /\ relativePaths = <<>>
  /\ systemPrompt = <<>>
  /\ claudeArgs = <<>>
  /\ spawned = FALSE
  /\ claude = NoClaude

\* every argument list, a few directories
LoadInitArgs ==
  /\ args \in SeqsUpTo(ArgTokens, MaxArgs)
  /\ fs \in [{DocshotPath, OtherPath} -> {"missing", "file", "dir"}]
  /\ listing \in Listings(1)
  /\ LoadStart

\* a few argument lists, every directory listing
LoadInitListings ==
  /\ args \in {<<>>, <<S_images, S_up_o>>, <<S_q, S_i, S_up_o>>, <<S_i, S_up_o, S_q>>,
               <<S_q, S_images, S_up_o, S_q>>, <<S_i, S_up_o, S_images>>,
               <<S_i, S_up_o, S_images, S_q>>, <<S_images, S_up_o, S_q, S_i, S_up_o>>}
  /\ fs \in {[path \in {DocshotPath, OtherPath} |-> "dir"]}
  /\ listing \in Listings(MaxEntries)
  /\ LoadStart

LoadInit == LoadInitArgs \/ LoadInitListings

\* --------------------------------------------------------- docload: actions
LoadExit(code, message) ==
  /\ lpc' = "exited"
  /\ lexit' = code
  /\ lerr' = message

\* only the long form counts as a help flag
HasHelpFlag_LongOnly == \E n \in 1..Len(args) : args[n] = S_help

HasHelpFlag == \E n \in 1..Len(args) : args[n] \in {S_help, S_h}

\* a help flag: claude gets the arguments as they are
HelpPassthrough ==
  /\ lpc = "start"
  /\ HasHelpFlag
  /\ claudeArgs' = args
  /\ spawned' = TRUE
  /\ claude' = [state |-> "running", code |-> 0 - 1]
  /\ lpc' = "waiting"
  /\ UNCHANGED <<args, fs, listing, lexit, lerr, imagesIndex, imagesDir, imageDirPath,
                 pngFiles, relativePaths, systemPrompt>>
  /\ UNCHANGED <<convVars, colorVars, namerVars>>

\* "Find --images flag and extract directory"
FindImagesFlag ==
  /\ lpc = "start"
  /\ ~HasHelpFlag
  /\ LET index == FindImagesIndex(args)
     IN /\ imagesIndex' = index
        /\ IF index # 0 - 1 /\ ~(index + 1 < Len(args))
             THEN /\ LoadExit(1, "ImagesRequiresPath")
                  /\ UNCHANGED imagesDir
             ELSE /\ imagesDir' = IF index # 0 - 1 THEN args[index + 2] ELSE S_docshot
                  /\ lpc' = "exists"
                  /\ UNCHANGED <<lexit, lerr>>
  /\ UNCHANGED <<args, fs, listing, imageDirPath, pngFiles, relativePaths, systemPrompt,
                 claudeArgs, spawned>>
  /\ UNCHANGED <<claude, convVars, colorVars, namerVars>>

\* "Resolve image directory path", "Validate directory exists"
CheckExists ==
  /\ lpc = "exists"
  /\ imageDirPath' = Resolve(imagesDir)
  /\ IF KindAt(Resolve(imagesDir)) = "missing"
       THEN LoadExit(1, "DirectoryNotFound")
       ELSE /\ lpc' = "stat"
            /\ UNCHANGED <<lexit, lerr>>
  /\ UNCHANGED <<args, fs, listing, imagesIndex, imagesDir, pngFiles, relativePaths,
                 systemPrompt, claudeArgs, spawned>>
  /\ UNCHANGED <<claude, convVars, colorVars, namerVars>>

\* "Check if it's actually a directory"
CheckIsDirectory ==
  /\ lpc = "stat"
  /\ IF KindAt(imageDirPath) # "dir"
       THEN LoadExit(1, "NotADirectory")
       ELSE /\ lpc' = "readdir"
            /\ UNCHANGED <<lexit, lerr>>
  /\ UNCHANGED <<args, fs, listing, imagesIndex, imagesDir, imageDirPath, pngFiles,
                 relativePaths, systemPrompt, claudeArgs, spawned>>
  /\ UNCHANGED <<claude, convVars, colorVars, namerVars>>

\* "Find all PNG files"
FindPng ==
  /\ lpc = "readdir"
  /\ pngFiles' = FindPngFiles(listing, AbsPath(imageDirPath))
  /\ lpc' = "found"
  /\ UNCHANGED <<args, fs, listing, lexit, lerr, imagesIndex, imagesDir, imageDirPath,
                 relativePaths, systemPrompt, claudeArgs, spawned>>
  /\ UNCHANGED <<claude, convVars, colorVars, namerVars>>

\* readdirSync throws: "Error reading directory"
ReadDirFails ==
  /\ lpc = "readdir"
  /\ LoadExit(1, "ReadError")
  /\ UNCHANGED <<args, fs, listing, imagesIndex, imagesDir, imageDirPath, pngFiles,
                 relativePaths, systemPrompt, claudeArgs, spawned>>
  /\ UNCHANGED <<claude, convVars, colorVars, namerVars>>

\* "Check if any images were found": none
NoPngFound ==
  /\ lpc = "found"
  /\ Len(pngFiles) = 0
  /\ LoadExit(1, "NoPngFiles")
  /\ UNCHANGED <<args, fs, listing, imagesIndex, imagesDir, imageDirPath, pngFiles,
                 relativePaths, systemPrompt, claudeArgs, spawned>>
  /\ UNCHANGED <<claude, convVars, colorVars, namerVars>>

\* relative paths, system prompt, claudeArgs, spawn
SpawnClaude ==
  /\ lpc = "found"
  /\ Len(pngFiles) # 0
  /\ LET rel == RelativePaths(pngFiles)
         prompt == JoinWith(rel, <<" ">>)
     IN /\ relativePaths' = rel
        /\ systemPrompt' = prompt
        /\ claudeArgs' = ClaudeArgs(args, imagesIndex, prompt)
  /\ spawned' = TRUE
  /\ claude' = [state |-> "running", code |-> 0 - 1]
  /\ lpc' = "waiting"
  /\ UNCHANGED <<args, fs, listing, lexit, lerr, imagesIndex, imagesDir, imageDirPath,
                 pngFiles>>
  /\ UNCHANGED <<convVars, colorVars, namerVars>>

\* the child process ends: it exits with a code, is killed by a signal (no
\* code), or could not be started
ClaudeEnds ==
  /\ lpc = "waiting"
  /\ claude.state = "running"
  /\ \/ \E code \in ClaudeCodes : claude' = [state |-> "exited", code |-> code]
     \/ claude' = [state |-> "failed", code |-> 0 - 1]
  /\ UNCHANGED <<args, fs, listing, lpc, lexit, lerr, imagesIndex, imagesDir, imageDirPath,
                 pngFiles, relativePaths, systemPrompt, claudeArgs, spawned>>
  /\ UNCHANGED <<convVars, colorVars, namerVars>>

\* claudeProcess.on('exit', code => process.exit(code ?? 0))
ClaudeExits ==
  /\ lpc = "waiting"
  /\ claude.state = "exited"
  /\ LoadExit(ForwardedCode(claude.code), "none")
  /\ UNCHANGED <<args, fs, listing, imagesIndex, imagesDir, imageDirPath, pngFiles,
                 relativePaths, systemPrompt, claudeArgs, spawned>>
  /\ UNCHANGED <<claude, convVars, colorVars, namerVars>>

\* claudeProcess.on('error', ...): claude could not be started
ClaudeFailsToStart ==
  /\ lpc = "waiting"
  /\ claude.state = "failed"
  /\ LoadExit(1, "SpawnError")
  /\ UNCHANGED <<args, fs, listing, imagesIndex, imagesDir, imageDirPath, pngFiles,
                 relativePaths, systemPrompt, claudeArgs, spawned>>
  /\ UNCHANGED <<claude, convVars, colorVars, namerVars>>

LoadNext ==
  \/ HelpPassthrough
  \/ FindImagesFlag
  \/ CheckExists
  \/ CheckIsDirectory
  \/ FindPng
  \/ ReadDirFails
  \/ NoPngFound
  \/ SpawnClaude
  \/ ClaudeEnds
  \/ ClaudeExits
  \/ ClaudeFailsToStart

\* ------------------------------------------------------------ convert: Init
S_bogus == <<"b", "o", "g", "u", "s">>
S_x == <<"x">>

RECURSIVE StringsUpTo(_, _)
\* every string over alphabet of length at most n
StringsUpTo(alphabet, n) ==
  IF n = 0 THEN {<<>>}
  ELSE LET shorter == StringsUpTo(alphabet, n - 1)
       IN shorter \cup {Append(t, c) : t \in shorter, c \in alphabet}

Contents == StringsUpTo({"a", "\n"}, MaxContent)

LinesOptions ==
  {Absent, Given(S_x)} \cup {Given(NumToString(Num(n))) : n \in (0 - 1)..MaxLinesOpt}

NoCanvas == [width |-> NaN, height |-> NaN,
             header |-> [page |-> <<>>, total |-> <<>>], rows |-> <<>>]

\* page_001.png .. page_<n>.png left behind by an earlier run
OldDisk(n) ==
  [name \in {PageFileName(Num(k)) : k \in 1..n} |-> [by |-> "old", of |-> <<>>, canvas |-> NoCanvas]]

S_f == <<"f", ".", "m", "d">>
S_anymd == <<"*", "*", "/", "*", ".", "m", "d">>

\* no directory under the output base but the base itself
NoTree == [dir \in {} |-> OldDisk(0)]

\* the <file> argument is a plain path
PlainInput ==
  /\ fileArg = S_f
  /\ globbed = <<>>
  /\ files = <<>>
  /\ fileIdx = 0
  /\ outputDir = <<>>
  /\ tree = NoTree

ConvOff ==
  /\ PlainInput
  /\ cli = [density |-> Absent, lines |-> Absent, fontSize |-> Absent, width |-> Absent]
  /\ inputExists = FALSE
  /\ content = <<>>
  /\ disk = OldDisk(0)
  /\ diskBefore = disk
  /\ dirCreated = FALSE
  /\ pc = "off"
  /\ exitCode = 0 - 1
  /\ stderr = "none"
  /\ lines = <<>>
  /\ linesPerPage = NaN
  /\ fontSize = NaN
  /\ imageWidth = NaN
  /\ totalPages = NaN
  /\ pages = <<>>
  /\ loopI = NaN
  /\ pageNum = 0
  /\ canvases = <<>>

ConvInitPages ==
  /\ PlainInput
  /\ cli \in [density  : {Absent, Given(<<"H", "i", "g", "h">>), Given(S_bogus)},
              lines    : LinesOptions,
              fontSize : {Absent, Given(<<"0">>)},
              width    : {Absent}]
  /\ inputExists \in BOOLEAN
  /\ content \in Contents
  /\ disk \in {OldDisk(n) : n \in 0..MaxOldPages}
  /\ diskBefore = disk
  /\ dirCreated = FALSE
  /\ pc = "start"
  /\ exitCode = 0 - 1
  /\ stderr = "none"
  /\ lines = <<>>
  /\ linesPerPage = NaN
  /\ fontSize = NaN
  /\ imageWidth = NaN
  /\ totalPages = NaN
  /\ pages = <<>>
  /\ loopI = NaN
  /\ pageNum = 0
  /\ canvases = <<>>

S_20 == <<"2", "0">>
S_800 == <<"8", "0", "0">>

\* every option in many forms, on two short files
ConvInitOptions ==
  /\ PlainInput
  /\ cli \in [density  : {Absent, Given(S_high), Given(S_medium), Given(S_low),
                          Given(<<"H", "I", "G", "H">>), Given(<<"L", "o", "w">>),
                          Given(S_bogus),
                          Given(<<"c", "o", "n", "s", "t", "r", "u", "c", "t", "o", "r">>)},
              lines    : LinesOptions \cup {Given(<<>>), Given(<<"2", "x">>)},
              fontSize : {Absent, Given(<<"0">>), Given(S_20), Given(S_x), Given(<<>>)},
              width    : {Absent, Given(S_800), Given(S_x)}]
  /\ inputExists = TRUE
  /\ content \in {<<>>, <<"a", "\n", "a">>}
  /\ disk = OldDisk(0)
  /\ diskBefore = disk
  /\ dirCreated = FALSE
  /\ pc = "start"
  /\ exitCode = 0 - 1
  /\ stderr = "none"
  /\ lines = <<>>
  /\ linesPerPage = NaN
  /\ fontSize = NaN
  /\ imageWidth = NaN
  /\ totalPages = NaN
  /\ pages = <<>>
  /\ loopI = NaN
  /\ pageNum = 0
  /\ canvases = <<>>

\* the files a glob pattern can match
BatchPaths == {<<"/", "w", "/", "a", "/", "x", ".", "m", "d">>,
               <<"/", "w", "/", "b", "/", "x", ".", "m", "d">>,
               <<"/", "w", "/", "y", ".", "z", ".", "m", "d">>}

BatchFiles == [path : BatchPaths, content : {<<"a">>, <<"a", "\n", "a">>}, readable : BOOLEAN]

\* glob results: different files, in any order
GlobResults(n) ==
  {l \in SeqsUpTo(BatchFiles, n) :
     \A a, b \in 1..Len(l) : a # b => l[a].path # l[b].path}

\* the <file> argument is a glob pattern
ConvInitBatch ==
  /\ fileArg \in {S_anymd, <<"?", ".", "m", "d">>}
  /\ globbed \in GlobResults(MaxFiles)
  /\ files = <<>>
  /\ fileIdx = 0
  /\ outputDir = <<>>
  /\ tree = NoTree
  /\ cli \in [density  : {Absent},
              lines    : {Absent, Given(<<"1">>), Given(<<"0">>)},
              fontSize : {Absent},
              width    : {Absent}]
  /\ inputExists = FALSE
  /\ content = <<>>
  /\ disk = OldDisk(0)
  /\ diskBefore = disk
  /\ dirCreated = FALSE
  /\ pc = "start"
  /\ exitCode = 0 - 1
  /\ stderr = "none"
  /\ lines = <<>>
  /\ linesPerPage = NaN
  /\ fontSize = NaN
  /\ imageWidth = NaN
  /\ totalPages = NaN
  /\ pages = <<>>
  /\ loopI = NaN
  /\ pageNum = 0
  /\ canvases = <<>>

ConvInit == ConvInitPages \/ ConvInitOptions \/ ConvInitBatch

\* the pages array cannot grow past this: the heap is exhausted
HeapPages == MaxContent + 3

\* --------------------------------------------------------- convert: actions
Exit(code, message) ==
  /\ pc' = "exited"
  /\ exitCode' = code
  /\ stderr' = message

\* convert action: "Validate density"
ValidateDensity ==
  /\ pc = "start"
  /\ IF DensityRejected(CommanderOptions(cli))
       THEN Exit(1, "InvalidDensity")
       ELSE /\ pc' = "resolve"
            /\ UNCHANGED <<exitCode, stderr>>
  /\ UNCHANGED <<cli, inputExists, content, diskBefore, disk, dirCreated, lines, linesPerPage,
                 fontSize, imageWidth, totalPages, pages, loopI, pageNum, canvases>>
  /\ UNCHANGED batchVars
  /\ UNCHANGED notConvVars

\* convert action: "Check if input is a glob pattern", "Single file mode", then
\* the configuration display
ResolveInput ==
  /\ pc = "resolve"
  /\ IF isGlobPattern(fileArg)
       THEN IF Len(globbed) = 0
              THEN Exit(1, "NoFilesFound") /\ UNCHANGED files
              ELSE /\ files' = globbed
                   /\ pc' = "file"
                   /\ UNCHANGED <<exitCode, stderr>>
       ELSE IF ~inputExists
              THEN Exit(1, "FileNotFound") /\ UNCHANGED files
              ELSE /\ files' = <<[path |-> AbsPath(Resolve(fileArg)), content |-> content,
                                  readable |-> TRUE]>>
                   /\ pc' = "file"
                   /\ UNCHANGED <<exitCode, stderr>>
  /\ UNCHANGED <<cli, inputExists, content, diskBefore, disk, dirCreated, lines, linesPerPage,
                 fontSize, imageWidth, totalPages, pages, loopI, pageNum, canvases>>
  /\ UNCHANGED <<fileArg, globbed, fileIdx, outputDir, tree>>
  /\ UNCHANGED notConvVars

\* the file loop's body up to the call, processFile, and generateImages down to
\* the start of the page-splitting loop
StartFile ==
  /\ pc = "file"
  /\ files[fileIdx + 1].readable
  /\ LET file == files[fileIdx + 1]
         config == Config(CommanderOptions(cli))
         lns == SplitLines(file.content)
         dir == IF Len(files) > 1 THEN fileToDirectoryName(file.path) ELSE <<>>
         all == (outputDir :> disk) @@ tree
         found == IF dir \in DOMAIN all THEN all[dir] ELSE OldDisk(0)
     IN /\ content' = file.content
        /\ lines' = lns
        /\ linesPerPage' = config.linesPerPage
        /\ fontSize' = config.fontSize
        /\ imageWidth' = config.imageWidth
        /\ totalPages' = MathCeilDiv(Len(lns), config.linesPerPage)
        /\ outputDir' = dir
        /\ tree' = [d \in (DOMAIN all) \ {dir} |-> all[d]]
        /\ disk' = found
        /\ diskBefore' = found
  /\ dirCreated' = TRUE
  /\ pages' = <<>>
  /\ loopI' = Num(0)
  /\ pageNum' = 0
  /\ canvases' = <<>>
  /\ pc' = "split"
  /\ UNCHANGED <<cli, inputExists, exitCode, stderr>>
  /\ UNCHANGED <<fileArg, globbed, files, fileIdx>>
  /\ UNCHANGED notConvVars

\* readFileSync throws in the file loop: convert's catch prints the message and
\* exits with 1
ReadFail ==
  /\ pc = "file"
  /\ ~files[fileIdx + 1].readable
  /\ Exit(1, "Error")
  /\ UNCHANGED <<cli, inputExists, content, diskBefore, disk, dirCreated,
                 lines, linesPerPage, fontSize, imageWidth, totalPages, pages, loopI,
                 pageNum, canvases>>
  /\ UNCHANGED batchVars
  /\ UNCHANGED notConvVars

\* one iteration of: for (let i = 0; i < lines.length; i += linesPerPage)
SplitStep ==
  /\ pc = "split"
  /\ NumLess(loopI, Num(Len(lines)))
  /\ Len(pages) < HeapPages
  /\ pages' = Append(pages, PageSlice(lines, loopI, linesPerPage))
  /\ loopI' = NumAdd(loopI, linesPerPage)
  /\ UNCHANGED <<cli, inputExists, content, diskBefore, disk, dirCreated, pc, exitCode, stderr,
                 lines, linesPerPage, fontSize, imageWidth, totalPages, pageNum,
                 canvases>>
  /\ UNCHANGED batchVars
  /\ UNCHANGED notConvVars

\* the loop never ends and pages.push exhausts the heap: the process is killed
SplitOverflow ==
  /\ pc = "split"
  /\ NumLess(loopI, Num(Len(lines)))
  /\ Len(pages) >= HeapPages
  /\ pc' = "crashed"
  /\ UNCHANGED <<cli, inputExists, content, diskBefore, disk, dirCreated, exitCode, stderr,
                 lines, linesPerPage, fontSize, imageWidth, totalPages, pages, loopI,
                 pageNum, canvases>>
  /\ UNCHANGED batchVars
  /\ UNCHANGED notConvVars

\* the loop condition fails: on to "Generate each page"
SplitDone ==
  /\ pc = "split"
  /\ ~NumLess(loopI, Num(Len(lines)))
  /\ pc' = "render"
  /\ pageNum' = 0
  /\ UNCHANGED <<cli, inputExists, content, diskBefore, disk, dirCreated, exitCode, stderr,
                 lines, linesPerPage, fontSize, imageWidth, totalPages, pages, loopI,
                 canvases>>
  /\ UNCHANGED batchVars
  /\ UNCHANGED notConvVars

\* one iteration of the render loop: draw the page, write page_NNN.png
RenderPage ==
  /\ pc = "render"
  /\ pageNum < Len(pages)
  /\ LET canvas == DrawPage(pages[pageNum + 1], pageNum, totalPages, linesPerPage,
                            fontSize, imageWidth)
     IN /\ canvases' = Append(canvases, canvas)
        /\ disk' = (PageFileName(Num(pageNum + 1)) :> [by |-> "run", of |-> files[fileIdx + 1].path,
                                                    canvas |-> canvas])
                     @@ disk
  /\ pageNum' = pageNum + 1
  /\ UNCHANGED <<cli, inputExists, content, diskBefore, dirCreated, pc, exitCode, stderr,
                 lines, linesPerPage, fontSize, imageWidth, totalPages, pages, loopI>>
  /\ UNCHANGED batchVars
  /\ UNCHANGED notConvVars

\* createCanvas, toBuffer or writeFileSync throws: convert's catch prints the
\* message and exits with 1
RenderFail ==
  /\ pc = "render"
  /\ pageNum < Len(pages)
  /\ Exit(1, "Error")
  /\ UNCHANGED <<cli, inputExists, content, diskBefore, disk, dirCreated,
                 lines, linesPerPage, fontSize, imageWidth, totalPages, pages, loopI,
                 pageNum, canvases>>
  /\ UNCHANGED batchVars
  /\ UNCHANGED notConvVars

\* writeFileSync throws after it has opened the file (the disk is full): what
\* was written of the page stays under the page's name; convert's catch prints
\* the message and exits with 1
WriteFail ==
  /\ pc = "render"
  /\ pageNum < Len(pages)
  /\ LET canvas == DrawPage(pages[pageNum + 1], pageNum, totalPages, linesPerPage,
                            fontSize, imageWidth)
     IN /\ canvases' = Append(canvases, canvas)
        /\ disk' = (PageFileName(Num(pageNum + 1)) :> [by |-> "partial", of |-> files[fileIdx + 1].path,
                                                    canvas |-> canvas])
                     @@ disk
  /\ Exit(1, "Error")
  /\ UNCHANGED <<cli, inputExists, content, diskBefore, dirCreated,
                 lines, linesPerPage, fontSize, imageWidth, totalPages, pages, loopI,
                 pageNum>>
  /\ UNCHANGED batchVars
  /\ UNCHANGED notConvVars

\* the render loop is over: "Generated n images", back in convert "Success!"
Finish ==
  /\ pc = "render"
  /\ pageNum >= Len(pages)
  /\ ~(fileIdx + 1 < Len(files))
  /\ Exit(0, "none")
  /\ UNCHANGED <<cli, inputExists, content, diskBefore, disk, dirCreated,
                 lines, linesPerPage, fontSize, imageWidth, totalPages, pages, loopI,
                 pageNum, canvases>>
  /\ UNCHANGED batchVars
  /\ UNCHANGED notConvVars

\* the render loop is over and the file loop has another file
NextFile ==
  /\ pc = "render"
  /\ pageNum >= Len(pages)
  /\ fileIdx + 1 < Len(files)
  /\ fileIdx' = fileIdx + 1
  /\ pc' = "file"
  /\ UNCHANGED <<cli, inputExists, content, diskBefore, disk, dirCreated, exitCode, stderr,
                 lines, linesPerPage, fontSize, imageWidth, totalPages, pages, loopI,
                 pageNum, canvases>>
  /\ UNCHANGED <<fileArg, globbed, files, outputDir, tree>>
  /\ UNCHANGED notConvVars

ConvNext ==
  \/ ValidateDensity
  \/ ResolveInput
  \/ StartFile
  \/ ReadFail
  \/ NextFile
  \/ SplitStep
  \/ SplitOverflow
  \/ SplitDone
  \/ RenderPage
  \/ RenderFail
  \/ WriteFail
  \/ Finish

Init == ConvInit /\ ColorOff /\ NamerOff /\ LoadOff
Next == ConvNext
Spec == Init /\ [][Next]_vars

\* ------------------------------------------------- pagination: C1, C2, C3, C5
\* the page-splitting loop of the current run has ended
SplitEnded == pc = "render" \/ (pc = "exited" /\ stderr \in {"none", "Error"})

PositiveLinesPerPage == IsNum(linesPerPage) /\ linesPerPage.v > 0

RECURSIVE Flatten(_)
Flatten(seqs) == IF seqs = <<>> THEN <<>> ELSE Head(seqs) \o Flatten(Tail(seqs))

\* C1: for a document of N lines and linesPerPage L > 0 the split gives exactly
\* ceil(N/L) pages (the p with (p-1)*L < N <= p*L), and the pages' lines joined
\* in page order are the N lines in their order.
C1_PagesPartitionLines ==
  (SplitEnded /\ PositiveLinesPerPage) =>
    /\ (Len(pages) - 1) * linesPerPage.v < Len(lines)
    /\ Len(lines) <= Len(pages) * linesPerPage.v
    /\ Flatten(pages) = lines

\* C1 witness: a split into several pages whose last page is not full
C1_Witness ==
  /\ SplitEnded /\ PositiveLinesPerPage
  /\ Len(pages) >= 2
  /\ Len(lines) % linesPerPage.v # 0

\* C2: for L > 0 (N >= 1 always) page i, 0-based, holds exactly the lines at the
\* 1-based positions i*L+1 .. min((i+1)*L, N): every page but the last has L
\* lines, the last has 1..L.
C2_PageHoldsItsRange ==
  (SplitEnded /\ PositiveLinesPerPage) =>
    LET L == linesPerPage.v
        N == Len(lines)
    IN /\ N >= 1 /\ Len(pages) >= 1
       /\ \A p \in 1..Len(pages) :
            LET last == IF p * L < N THEN p * L ELSE N
            IN /\ Len(pages[p]) = last - (p - 1) * L
               /\ \A j \in 1..Len(pages[p]) : pages[p][j] = lines[(p - 1) * L + j]
               /\ (p < Len(pages) => Len(pages[p]) = L)
               /\ (p = Len(pages) => Len(pages[p]) >= 1 /\ Len(pages[p]) <= L)

\* C2 witness: three pages or more with L >= 2, so that a full middle page and a
\* shorter last page both occur
C2_Witness ==
  /\ SplitEnded /\ PositiveLinesPerPage
  /\ linesPerPage.v >= 2
  /\ Len(pages) >= 3
  /\ Len(pages[Len(pages)]) < linesPerPage.v

\* the numbers drawn on the canvases, page after page, top to bottom
DrawnNumbers == Flatten([p \in 1..Len(canvases) |->
                  [j \in 1..Len(canvases[p].rows) |->
                     ParseInt(canvases[p].rows[j].lineNumStr)]])

\* C3: the number drawn beside a content line is the line's 1-based position in
\* the document: row j (1-based) of page i (0-based) carries i*L+j and the text
\* of that line; over a whole run the numbers drawn are 1..N in increasing order,
\* each once.
C3_LineNumberIsPosition ==
  PositiveLinesPerPage =>
    /\ \A p \in 1..Len(canvases) :
         \A j \in 1..Len(canvases[p].rows) :
            LET pos == (p - 1) * linesPerPage.v + j
            IN /\ ParseInt(canvases[p].rows[j].lineNumStr) = Num(pos)
               /\ pos <= Len(lines)
               /\ canvases[p].rows[j].text = lines[pos]
    /\ (pc = "exited" /\ exitCode = 0) =>
          DrawnNumbers = [n \in 1..Len(lines) |-> Num(n)]

\* C3 witness: a finished run that drew a second page with two rows or more
C3_Witness ==
  /\ pc = "exited" /\ exitCode = 0 /\ PositiveLinesPerPage
  /\ Len(canvases) >= 2
  /\ Len(canvases[2].rows) >= 2

\* the number of line feeds of a string
RECURSIVE CountLF(_)
CountLF(str) == IF str = <<>> THEN 0
                ELSE (IF Head(str) = "\n" THEN 1 ELSE 0) + CountLF(Tail(str))

\* page_NNN.png for 1 <= n <= 999, digit by digit
ExpectedPageName(n) ==
  <<"p", "a", "g", "e", "_",
    DigitChar[(n \div 100) + 1], DigitChar[((n \div 10) % 10) + 1], DigitChar[(n % 10) + 1],
    ".", "p", "n", "g">>

\* C5: when convert succeeds on a file of N lines (N = line feeds + 1) with L
\* lines per page into a directory that held no PNG file, the directory holds
\* exactly page_001.png .. page_<ceil(N/L)>.png afterwards.
C5_OutputFilesOfRun ==
  (pc = "exited" /\ exitCode = 0 /\ PositiveLinesPerPage /\ DOMAIN diskBefore = {}) =>
    LET N == CountLF(content) + 1
        L == linesPerPage.v
        count == CHOOSE c \in 0..N : (c - 1) * L < N /\ N <= c * L
    IN /\ DOMAIN disk = {ExpectedPageName(k) : k \in 1..count}
       /\ Cardinality(DOMAIN disk) = count

\* C5 witness: a successful run into an empty directory that wrote three pages
\* or more from a content that ends in a line feed
C5_Witness ==
  /\ pc = "exited" /\ exitCode = 0 /\ PositiveLinesPerPage
  /\ DOMAIN diskBefore = {}
  /\ content # <<>> /\ content[Len(content)] = "\n"
  /\ Cardinality(DOMAIN disk) >= 3

\* ------------------------------------------------------- configuration: C7
\* the preset table as the documentation gives it: (lines per page, font size)
C7_Presets == (S_high :> <<100, 12>>) @@ (S_medium :> <<80, 14>>) @@ (S_low :> <<60, 16>>)

\* the density a command line names: the value given, medium when none is
C7_Density == IF cli.density.given THEN cli.density.val ELSE S_medium

\* C7: once processFile has read its configuration, linesPerPage is the --lines
\* value if given, else the preset's; fontSize is the --font-size value if
\* given, else the preset's, each whatever the other is; the presets are
\* high=(100,12), medium=(80,14), low=(60,16); the default density is medium and
\* the default width 1400.  (Values: decimal integers as written by String.)
C7_ConfigFromOptions ==
  dirCreated =>
    /\ \A n \in (0 - 1)..MaxLinesOpt :
         cli.lines = Given(NumToString(Num(n))) => linesPerPage = Num(n)
    /\ \A n \in {0, 20} :
         cli.fontSize = Given(NumToString(Num(n))) => fontSize = Num(n)
    /\ C7_Density \in DOMAIN C7_Presets =>
         /\ ~cli.lines.given => linesPerPage = Num(C7_Presets[C7_Density][1])
         /\ ~cli.fontSize.given => fontSize = Num(C7_Presets[C7_Density][2])
    /\ (~cli.density.given /\ ~cli.lines.given /\ ~cli.fontSize.given) =>
         linesPerPage = Num(80) /\ fontSize = Num(14)
    /\ ~cli.width.given => imageWidth = Num(1400)
    /\ cli.width = Given(S_800) => imageWidth = Num(800)

\* C7 witness: --density low with --font-size 20 and no --lines: the preset's
\* lines per page next to the overriding font size
C7_Witness ==
  /\ dirCreated
  /\ cli.density = Given(S_low)
  /\ ~cli.lines.given
  /\ cli.fontSize = Given(S_20)
  /\ linesPerPage = Num(60)
  /\ fontSize = Num(20)

\* --------------------------------------------------------- getLineColor: C6
LeadStrings == StringsUpTo({" ", "\t"}, MaxLead)

LineBodies ==
  {Keywords[n] : n \in 1..Len(Keywords)}
    \cup {<<>>, <<"#">>, <<"/", "/">>, <<"/">>, <<"x">>, <<"C", "o", "n", "s", "t">>,
          <<"c", "o", "n", "s", "t", "a", "n", "t", " ", "x">>, <<"i", "f", "f", "y">>,
          <<"t", "y", "p", "e", "s">>}

LineTails ==
  {<<>>, <<" ">>, <<"x">>, <<"_">>, <<"1">>, <<"(">>, <<"#">>, <<"/", "/">>, <<" ", "x">>,
   <<"ê", "t">>}

ColorInit ==
  /\ line \in {lead \o body \o tail :
                 lead \in LeadStrings, body \in LineBodies, tail \in LineTails}
  /\ lineColor = ""
  /\ lineReturn = ""

\* const lineColor = getLineColor(line)
Classify ==
  /\ lineColor = ""
  /\ lineColor' = getLineColor(line)
  /\ lineReturn' = getLineColorReturn(line)
  /\ UNCHANGED <<line, convVars, namerVars, loadVars>>

InitColor == ConvOff /\ NamerOff /\ LoadOff /\ ColorInit
SpecColor == InitColor /\ [][Classify]_vars

\* index of the first character of s that is no white space, Len(s)+1 if none
C6_First(s) == CHOOSE p \in 1..(Len(s) + 1) :
                 /\ \A m \in 1..(p - 1) : s[m] \in WhiteSpace
                 /\ (p <= Len(s) => s[p] \notin WhiteSpace)

\* s carries word w at position p
C6_At(s, p, w) ==
  /\ p + Len(w) - 1 <= Len(s)
  /\ \A m \in 1..Len(w) : s[p + m - 1] = w[m]

\* the three rules on a line, by position
C6_IsComment(s) == C6_At(s, C6_First(s), <<"#">>) \/ C6_At(s, C6_First(s), <<"/", "/">>)
C6_IsKeyword(s) ==
  \E n \in 1..Len(Keywords) :
     LET after == C6_First(s) + Len(Keywords[n])
     IN /\ C6_At(s, C6_First(s), Keywords[n])
        /\ (after > Len(s) \/ s[after] \notin WordChars)

\* C6: getLineColor gives every line exactly one of three colors: the comment
\* color if the trimmed line starts with '#' or '//', otherwise the keyword
\* color if it starts with one of the 17 keywords (as a whole word), otherwise
\* the text color; white space in front of the line does not change the color.
C6_ColorByPriority ==
  lineColor # "" =>
    /\ lineColor \in {COMMENT_COLOR, KEYWORD_COLOR, TEXT_COLOR}
    /\ lineColor = (IF C6_IsComment(line) THEN COMMENT_COLOR
                    ELSE IF C6_IsKeyword(line) THEN KEYWORD_COLOR
                    ELSE TEXT_COLOR)
    /\ \A w \in WhiteSpace : getLineColor(<<w>> \o line) = lineColor

\* C6 witness: an indented line that starts with '#' got the comment color
C6_Witness ==
  /\ lineColor = COMMENT_COLOR
  /\ Len(line) >= 2
  /\ line[1] \in WhiteSpace
  /\ line[2] = "#"

\* ------------------------------------------------------------ file name: C4
NamerInit ==
  /\ ordinal \in 0..MaxOrdinal
  /\ filename = <<>>

\* const filename = `page_${String(currentPage).padStart(3, '0')}.png` with
\* currentPage = pageNum + 1
NameFile ==
  /\ filename = <<>>
  /\ filename' = PageFileName(Num(ordinal + 1))
  /\ UNCHANGED <<ordinal, convVars, colorVars, loadVars>>

InitNamer == ConvOff /\ ColorOff /\ LoadOff /\ NamerInit
SpecNamer == InitNamer /\ [][NameFile]_vars

\* C4: the file of page ordinal k is page_<k+1 padded with zeros to 3 digits>.png;
\* different ordinals give different names; and among the first 999 pages a
\* later page's name is lexicographically greater than every earlier page's.
C4_NameOfOrdinal ==
  filename # <<>> =>
    LET number == SubSeq(filename, 6, Len(filename) - 4)
    IN /\ SubSeq(filename, 1, 5) = <<"p", "a", "g", "e", "_">>
       /\ SubSeq(filename, Len(filename) - 3, Len(filename)) = <<".", "p", "n", "g">>
       /\ \A m \in 1..Len(number) : number[m] \in DigitChars
       /\ ParseInt(number) = Num(ordinal + 1)
       /\ Len(number) >= 3
       /\ (Len(number) > 3 => number[1] # "0")
       /\ (ordinal + 1 <= 999 => filename = ExpectedPageName(ordinal + 1))
       /\ \A j \in 0..MaxOrdinal : j # ordinal => PageFileName(Num(j + 1)) # filename
       /\ (ordinal + 1 <= 999 =>
             \A j \in 0..(ordinal - 1) : StrLess(PageFileName(Num(j + 1)), filename))

\* C4 witness: page 999, the last one the order is promised for, has its name
C4_Witness == ordinal + 1 = 999 /\ filename = ExpectedPageName(999)

\* ------------------------------------------------------------ docload: Spec
InitLoad == ConvOff /\ ColorOff /\ NamerOff /\ LoadInit
SpecLoad == InitLoad /\ [][LoadNext]_vars

\* ----------------------------------------------------- docload: properties
RECURSIVE CountChar(_, _)
\* how many times the character c occurs in s
CountChar(s, c) ==
  IF s = <<>> THEN 0
  ELSE (IF Head(s) = c THEN 1 ELSE 0) + CountChar(Tail(s), c)

RECURSIVE PngFileNames(_)
\* the names of the regular files of a listing that end in '.png', any case
PngFileNames(entries) ==
  IF entries = <<>> THEN <<>>
  ELSE (IF Head(entries).isFile /\ EndsWith(ToLowerCase(Head(entries).name), S_dotpng)
          THEN <<Head(entries).name>> ELSE <<>>) \o PngFileNames(Tail(entries))

\* docload went through image loading and started claude
LoadedImages == spawned /\ ~HasHelpFlag

\* the token of the file called name in the image directory
TokenOf(name) == <<"@">> \o Relative(Cwd, Append(imageDirPath, name))

\* C8: the reference string has exactly one '@' token per regular file of the
\* image directory whose name ends in '.png' in any case; directories and
\* files with other endings give no token
C8_OneTokenPerPngFile ==
  LoadedImages => CountChar(systemPrompt, "@") = Len(PngFileNames(listing))

\* C9: the reference string is the tokens '@' + relative path of the matching
\* files, in the order of their names, joined by single spaces; k matching
\* files give k tokens
C9_TokensInNameOrder ==
  LoadedImages =>
    LET names == SortStrings(PngFileNames(listing))
    IN systemPrompt = JoinWith([n \in 1..Len(names) |-> TokenOf(names[n])], <<" ">>)

\* the first of the four failures that applies to a run, "none" if none does
ExpectedFailure ==
  LET index == FindImagesIndex(args)
      dir == Resolve(IF index # 0 - 1 THEN args[index + 2] ELSE S_docshot)
  IN IF index # 0 - 1 /\ index + 1 = Len(args) THEN "ImagesRequiresPath"
     ELSE IF KindAt(dir) = "missing" THEN "DirectoryNotFound"
     ELSE IF KindAt(dir) # "dir" THEN "NotADirectory"
     ELSE IF PngFileNames(listing) = <<>> THEN "NoPngFiles"
     ELSE "none"

\* C10: without a help flag, docload stops at the first of: flag without a
\* value, directory missing, path not a directory, directory without a PNG
\* file; it prints that failure's message, exits with 1 and never spawns
\* claude (a directory that cannot be read is a failure of its own)
C10_ChecksInOrder ==
  (~HasHelpFlag /\ lpc \in {"waiting", "exited"} /\ lerr # "ReadError"
     /\ ExpectedFailure # "none")
    => (lerr = ExpectedFailure /\ lexit = 1 /\ ~spawned)

\* what the code does: C9 over the entries that match by name, files or not
RECURSIVE MatchingNames(_)
MatchingNames(entries) ==
  IF entries = <<>> THEN <<>>
  ELSE (IF EndsWith(ToLowerCase(Head(entries).name), S_dotpng)
          THEN <<Head(entries).name>> ELSE <<>>) \o MatchingNames(Tail(entries))

TokensOfMatchingEntries ==
  LoadedImages =>
    LET names == SortStrings(MatchingNames(listing))
    IN /\ systemPrompt = JoinWith([n \in 1..Len(names) |-> TokenOf(names[n])], <<" ">>)
       /\ CountChar(systemPrompt, "@") = Len(names)

\* the four checks, in order, when every matching entry is a regular file
ChecksInOrderForFilesOnly ==
  (\A n \in 1..Len(listing) : listing[n].isFile) => C10_ChecksInOrder

\* the positions of args that hold '--images' or '-i'
FlagPositions == {n \in 1..Len(args) : args[n] \in {S_images, S_i}}

\* args without its first '--images'/'-i' and the argument after it
ArgsWithoutImagesFlag ==
  IF FlagPositions = {} THEN args
  ELSE LET f == CHOOSE n \in FlagPositions : \A m \in FlagPositions : n <= m
       IN [n \in 1..(Len(args) - 2) |-> IF n < f THEN args[n] ELSE args[n + 2]]

\* C11: when docload has found its images, claude's argument list is the
\* input list without the (first) --images/-i flag and its value, the other
\* arguments in their order wherever the flag stood, then
\* '--append-system-prompt' and the reference string as the last two
C11_ClaudeArgsAreArgsWithoutFlag ==
  LoadedImages => claudeArgs = ArgsWithoutImagesFlag \o <<S_append, systemPrompt>>

\* C11 witness: the flag came first and an argument after its value was kept
C11_Witness ==
  /\ LoadedImages
  /\ args = <<S_i, S_up_o, S_q>>
  /\ claudeArgs = <<S_q, S_append, systemPrompt>>
  /\ systemPrompt # <<>>

\* some argument is '--help' or '-h'
C12_HelpGiven == \E n \in 1..Len(args) : args[n] \in {S_help, S_h}

\* C12: with '--help' or '-h' among the arguments, docload goes from its start
\* straight to claude with the arguments as they are; the image directory is
\* never resolved, tested or read, and none of the image errors is printed,
\* whatever is or is not at the image directory
C12_HelpSkipsImageDiscovery ==
  C12_HelpGiven =>
    /\ lpc \in {"start", "waiting", "exited"}
    /\ lpc # "start" => (spawned /\ claudeArgs = args)
    /\ lerr \in {"none", "SpawnError"}
    /\ imageDirPath = <<>> /\ pngFiles = <<>> /\ systemPrompt = <<>>

\* C12 witness: claude runs with '-h' and a dangling '--images' as given while
\* the default image directory does not exist
C12_Witness ==
  /\ spawned
  /\ args = <<S_images, S_h>>
  /\ claudeArgs = args
  /\ KindAt(DocshotPath) = "missing"
  /\ KindAt(Resolve(S_h)) = "missing"

\* C13: once claude is spawned, docload exits only after claude has exited or
\* failed to start; it exits with the code claude exited with, whatever that
\* code is, and with 1 when claude could not be started
C13_ExitFollowsClaude ==
  (spawned /\ lpc = "exited") =>
    /\ claude.state \in {"exited", "failed"}
    /\ (claude.state = "exited" /\ claude.code # 0 - 1) => lexit = claude.code
    /\ claude.state = "failed" => lexit = 1

\* C13 witness: claude, started with the image references, exited with 255 and
\* so did docload
C13_Witness ==
  /\ LoadedImages
  /\ lpc = "exited"
  /\ claude = [state |-> "exited", code |-> 255]
  /\ lexit = 255

\* C14: a lines-per-page value of 0 or less is rejected before pagination: the
\* page-splitting loop never runs with linesPerPage <= 0, and a run that was
\* given such a value ends as a failure
C14_NonPositiveLinesRejected ==
  /\ pc \in {"split", "crashed"} => ~(IsNum(linesPerPage) /\ linesPerPage.v <= 0)
  /\ (pc = "exited" /\ \E n \in {0 - 1, 0} : cli.lines = Given(NumToString(Num(n))))
       => exitCode = 1

\* an option value that is not a number
C15_NonNumeric(opt) == opt \in {Given(S_x), Given(<<"2", "x">>)}

\* C15: a non-numeric value of --lines, --font-size or --width is a validation
\* failure: the run ends with exit code 1 and a message on the error stream,
\* and no page image is written
C15_NonNumericRejected ==
  (C15_NonNumeric(cli.lines) \/ C15_NonNumeric(cli.fontSize) \/ C15_NonNumeric(cli.width))
    => /\ disk = diskBefore
       /\ pc = "exited" => (exitCode = 1 /\ stderr # "none")

\* the density value in lower case is one of the three names
C16_Recognized == ToLowerCase(C7_Density) \in {S_high, S_medium, S_low}

\* a --lines value (not the empty string) is given
C16_LinesOverride == cli.lines.given /\ cli.lines.val # <<>>

\* C16: convert rejects the density exactly when its lower-cased value is none
\* of high, medium, low and no --lines override is given; it then exits with
\* code 1 and the "Invalid density" message before any file is read or written.
\* An unrecognized density accepted because of --lines leaves the font size at
\* the medium preset's 14 unless --font-size is given.
C16_DensityValidation ==
  /\ pc # "start" =>
       (stderr = "InvalidDensity" <=> (~C16_Recognized /\ ~C16_LinesOverride))
  /\ stderr = "InvalidDensity" =>
       /\ pc = "exited" /\ exitCode = 1
       /\ ~dirCreated /\ disk = diskBefore /\ files = <<>> /\ lines = <<>>
  /\ (dirCreated /\ ~C16_Recognized /\ C16_LinesOverride /\ ~cli.fontSize.given) =>
       fontSize = Num(14)

\* the input names nothing: a plain path that does not exist, or a pattern that
\* matches no file
C17_InputMissing == IF isGlobPattern(fileArg) THEN globbed = <<>> ELSE ~inputExists

C18_LoadFailed ==
  \/ lexit # 0
  \/ claude.state = "failed"
  \/ (claude.state = "exited" /\ claude.code # 0)

\* C18: every failure, that of the spawned claude exiting with a non-zero code
\* or not starting included, prints an error message and ends the tool with a
\* non-zero exit code
C18_FailuresAreReported ==
  (lpc = "exited" /\ C18_LoadFailed) => (lerr # "none" /\ lexit # 0)

\* every exit of convert with a non-zero code has its message, and the other
\* way round
ConvertFailuresAreReported ==
  pc = "exited" => (exitCode # 0 <=> stderr # "none")

\* the files of the output directory that this run has touched
C19_RunFiles == {name \in DOMAIN disk : disk[name].by # "old"}

\* C19: in a generateImages run (into a directory that holds nothing of this
\* convert run yet) the files written so far are page_001 .. page_j for the j
\* pages rendered, each complete, at every point of the run and after it was
\* aborted at a page; the page it failed at has no file of this run
C19_WrittenFilesArePrefix ==
  (pc \in {"render", "exited"} /\ \A name \in DOMAIN diskBefore : diskBefore[name].by = "old")
    => /\ C19_RunFiles = {PageFileName(Num(k)) : k \in 1..pageNum}
       /\ \A name \in C19_RunFiles : disk[name].by = "run"

\* the same when no write fails half way
PrefixUnlessWriteFails ==
  (\A name \in DOMAIN disk : disk[name].by # "partial") => C19_WrittenFilesArePrefix

\* every directory under the output base with its content
OutputTree == (outputDir :> disk) @@ tree

\* the output directory of the k-th file of a batch
C20_DirOf(k) == fileToDirectoryName(files[k].path)

\* some page file on disk was written from the input file at path
C20_HasPagesOf(path) ==
  \E dir \in DOMAIN OutputTree : \E name \in DOMAIN OutputTree[dir] :
     OutputTree[dir][name].of = path

\* C20: in batch mode the files are processed in list order, one after another;
\* the first file that fails ends the run with exit code 1, no later file is
\* read or rendered, and the images of the files before it stay on disk
C20_BatchStopsAtFirstFailure ==
  Len(files) > 1 =>
    /\ fileIdx < Len(files)
    /\ \A k \in 1..Len(files) : k > fileIdx + 1 => ~C20_HasPagesOf(files[k].path)
    /\ pc \in {"split", "render"} => content = files[fileIdx + 1].content
    /\ \A k \in 1..fileIdx :
         /\ files[k].readable
         /\ C20_DirOf(k) \in DOMAIN OutputTree
         /\ PageFileName(Num(1)) \in DOMAIN OutputTree[C20_DirOf(k)]
         /\ OutputTree[C20_DirOf(k)][PageFileName(Num(1))].of = files[k].path
    /\ (pc = "exited" /\ exitCode = 0) => fileIdx + 1 = Len(files)
    /\ (pc = "exited" /\ exitCode # 0) => (exitCode = 1 /\ stderr = "Error")

\* the same for batches whose files have different directory names
BatchStopsWhenNamesDiffer ==
  (\A a, b \in 1..Len(files) : a # b => C20_DirOf(a) # C20_DirOf(b))
    => C20_BatchStopsAtFirstFailure

\* C21: after convert has run with success into a directory that held page
\* images of an earlier run, every page_NNN.png of the directory is one the
\* new run wrote, also when the new document has fewer pages than the old one
C21_OldImagesAreOverwritten ==
  (pc = "exited" /\ exitCode = 0) =>
    \A name \in DOMAIN disk : disk[name].by = "run"

\* the old images that the new run has a page for are overwritten
OldImagesWithNewPageAreOverwritten ==
  (pc = "exited" /\ exitCode = 0) =>
    \A k \in 1..Len(pages) :
       /\ PageFileName(Num(k)) \in DOMAIN disk
       /\ disk[PageFileName(Num(k))].by = "run"

\* the directory names of the files a pattern can match, as the documentation
\* derives them: the file name without '.md', other characters than letters,
\* digits, '-' and '_' replaced by '_'
C22_NameOf(path) ==
  IF path = <<"/", "w", "/", "y", ".", "z", ".", "m", "d">> THEN <<"y", "_", "z">>
  ELSE <<"x">>

\* C22: the pages of an input file are written into <output>/<name derived
\* from the file name> when the input resolves to more than one file, and into
\* <output> itself when it resolves to one file, plain path or pattern
C22_PagesGoToFileDirectory ==
  /\ \A dir \in DOMAIN OutputTree : \A name \in DOMAIN OutputTree[dir] :
        LET page == OutputTree[dir][name]
        IN page.by # "old" =>
             dir = (IF Len(files) > 1 THEN C22_NameOf(page.of) ELSE <<>>)
  /\ pc \in {"split", "render"} =>
        outputDir = (IF Len(files) > 1 THEN C22_NameOf(files[fileIdx + 1].path) ELSE <<>>)

\* C22 witness: a batch of two files is done, each has its page in its own directory
C22_Witness ==
  /\ pc = "exited" /\ exitCode = 0
  /\ Len(files) = 2
  /\ DOMAIN OutputTree = {<<>>, <<"x">>, <<"y", "_", "z">>}
  /\ PageFileName(Num(1)) \in DOMAIN OutputTree[<<"x">>]
  /\ PageFileName(Num(1)) \in DOMAIN OutputTree[<<"y", "_", "z">>]
  /\ DOMAIN OutputTree[<<>>] = {}

\* C23: the markdown-header return of getLineColor is never taken: a line
\* whose first character after white space is '#' returns at the comment rule
\* with the comment color, and no line returns at the header rule
C23_HeaderRuleUnreachable ==
  lineColor # "" =>
    /\ lineReturn # "header"
    /\ C6_At(line, C6_First(line), <<"#">>) =>
         (lineReturn = "comment" /\ lineColor = COMMENT_COLOR)
    /\ lineColor = KEYWORD_COLOR => lineReturn = "keyword"

\* C23 witness: the markdown header '# x' was classified as a comment
C23_Witness ==
  /\ line = <<"#", " ", "x">>
  /\ lineColor = COMMENT_COLOR
  /\ lineReturn = "comment"

\* the letters of the lines classified here
C24_Letters == LowerChars \cup UpperChars \cup {"ê"}

\* one of the 17 keywords stands at the start of the trimmed line and is a
\* whole word there: the line ends after it, or a character follows that is no
\* letter, digit or underscore
C24_WholeWordKeyword(s) ==
  \E n \in 1..Len(Keywords) :
     LET after == C6_First(s) + Len(Keywords[n])
     IN /\ C6_At(s, C6_First(s), Keywords[n])
        /\ (after > Len(s) \/ s[after] \notin C24_Letters \cup DigitChars \cup {"_"})

\* C24: a line gets the keyword color only if a keyword is a whole-word prefix
\* of the trimmed line; 'constant x', 'iffy' and 'types' get the default
\* color, and so does a keyword written with a capital
C24_KeywordIsWholeWord ==
  lineColor # "" =>
    /\ lineColor = KEYWORD_COLOR => C24_WholeWordKeyword(line)
    /\ Trim(line) \in {<<"c", "o", "n", "s", "t", "a", "n", "t", " ", "x">>,
                       <<"i", "f", "f", "y">>, <<"t", "y", "p", "e", "s">>,
                       <<"C", "o", "n", "s", "t">>} => lineColor = TEXT_COLOR

\* the same for lines in which no letter outside a-z, A-Z follows the keyword
KeywordIsWholeAsciiWord ==
  (\A n \in 1..Len(line) : line[n] # "ê") => C24_KeywordIsWholeWord

\* C25: for every configuration convert accepts, page generation terminates:
\* the page-splitting loop makes no more pages than there are lines and ends,
\* the render loop renders each page once and ends
C25_PageGenerationTerminates ==
  /\ pc # "crashed"
  /\ pc = "split" => Len(pages) <= Len(lines)
  /\ pc = "render" => pageNum <= Len(pages)

\* the same for a positive number of lines per page
TerminatesForPositiveLines ==
  (pc \in {"split", "render", "crashed"} /\ PositiveLinesPerPage)
    => C25_PageGenerationTerminates

\* C26: the total in every page header is the number of pages generated (the
\* ceil(N/L) computed apart agrees with the length of the page list), the page
\* numbers run 1, 2, .. in order, and after a successful run the total
\* reported is the number of files written
C26_HeaderCountsPages ==
  (dirCreated /\ SplitEnded) =>
    /\ totalPages = Num(Len(pages))
    /\ \A p \in 1..Len(canvases) :
         /\ canvases[p].header.page = NumToString(Num(p))
         /\ canvases[p].header.total = NumToString(Num(Len(pages)))
    /\ (pc = "exited" /\ exitCode = 0) =>
         /\ Len(canvases) = Len(pages)
         /\ totalPages = Num(Cardinality({name \in DOMAIN disk : disk[name].by = "run"}))

\* the same for a positive number of lines per page, in a directory of its own
HeaderCountsPagesForPositiveLines ==
  (PositiveLinesPerPage /\ \A name \in DOMAIN diskBefore : diskBefore[name].by = "old")
    => C26_HeaderCountsPages

\* C27: every configuration that reaches generateImages has fontSize > 0 and
\* imageWidth > 0, whatever values --font-size and --width are given
C27_FontAndWidthPositive ==
  pc \in {"split", "render", "crashed"} =>
    /\ IsNum(fontSize) /\ fontSize.v > 0
    /\ IsNum(imageWidth) /\ imageWidth.v > 0

\* the same when --font-size and --width are left out and the density is a preset
FontAndWidthPositiveByDefault ==
  (/\ pc \in {"split", "render", "crashed"}
   /\ ~cli.fontSize.given /\ ~cli.width.given
   /\ ToLowerCase(cli.density.val) \in DensityNames)
    => C27_FontAndWidthPositive

\* the page files of the k-th file of a batch, once it is done, are on disk as
\* that file's pages
C28_PagesKept(k) ==
  /\ C20_DirOf(k) \in DOMAIN OutputTree
  /\ PageFileName(Num(1)) \in DOMAIN OutputTree[C20_DirOf(k)]
  /\ OutputTree[C20_DirOf(k)][PageFileName(Num(1))].of = files[k].path

\* C28: in multi-file mode distinct input files are written to distinct output
\* subdirectories, and no page image written for one file of the batch is
\* overwritten by the pages of another file of the batch
C28_DistinctFilesDistinctDirectories ==
  Len(files) > 1 =>
    /\ \A a, b \in 1..Len(files) :
         files[a].path # files[b].path => C20_DirOf(a) # C20_DirOf(b)
    /\ \A k \in 1..fileIdx : C28_PagesKept(k)

\* the pages of a file are kept when no other file of the batch has its base name
PagesKeptWhenBaseNamesDiffer ==
  Len(files) > 1 =>
    \A k \in 1..fileIdx :
      (\A b \in 1..Len(files) : b # k => C20_DirOf(b) # C20_DirOf(k))
        => C28_PagesKept(k)

\* the number of line feeds of a text
RECURSIVE C29_LineFeeds(_)
C29_LineFeeds(text) ==
  IF text = <<>> THEN 0
  ELSE (IF Head(text) = "\n" THEN 1 ELSE 0) + C29_LineFeeds(Tail(text))

\* C29: the document read from a file has N = line feeds + 1 >= 1 lines, every
\* successful convert writes at least one page image, and an empty file gives
\* exactly one page, page_001.png with the header 'Page 1/1'
C29_AtLeastOnePage ==
  /\ dirCreated => (Len(lines) = C29_LineFeeds(content) + 1 /\ Len(lines) >= 1)
  /\ (pc = "exited" /\ exitCode = 0) =>
       /\ PageFileName(Num(1)) \in DOMAIN disk
       /\ disk[PageFileName(Num(1))].by = "run"
       /\ content = <<>> =>
            /\ {name \in DOMAIN disk : disk[name].by = "run"} = {PageFileName(Num(1))}
            /\ Len(canvases) = 1
            /\ canvases[1].header = [page |-> <<"1">>, total |-> <<"1">>]

\* the same for a positive number of lines per page
AtLeastOnePageForPositiveLines ==
  (dirCreated /\ PositiveLinesPerPage) => C29_AtLeastOnePage

\* the position in args of the first '--images'/'-i'
C30_First == CHOOSE n \in FlagPositions : \A m \in FlagPositions : n <= m

\* C30: when '--images'/'-i' is given more than once, the first occurrence is
\* the one used: the argument after it is the image directory, only that flag
\* and its value are removed, and every later '--images'/'-i' is passed on to
\* claude with its value, unchanged
C30_FirstImagesFlagOnly ==
  (Cardinality(FlagPositions) > 1 /\ ~HasHelpFlag) =>
    /\ lpc # "start" =>
         /\ imagesIndex = C30_First - 1
         /\ imagesDir = args[C30_First + 1]
    /\ spawned =>
         /\ Len(claudeArgs) = Len(args)
         /\ SubSeq(claudeArgs, 1, Len(args) - 2)
              = SubSeq(args, 1, C30_First - 1) \o SubSeq(args, C30_First + 2, Len(args))
         /\ \A n \in FlagPositions : n > C30_First + 1 =>
              /\ claudeArgs[n - 2] = args[n]
              /\ n < Len(args) => claudeArgs[n - 1] = args[n + 1]

\* C30 witness: claude was started with the second flag and its value, the
\* directory of the first flag was the one read
C30_Witness ==
  /\ spawned
  /\ args = <<S_i, S_up_o, S_images, S_q>>
  /\ imagesDir = S_up_o
  /\ imageDirPath = OtherPath
  /\ claudeArgs = <<S_images, S_q, S_append, systemPrompt>>

====
